---- MODULE Spec2Model ----
(***************************************************************************)
(* Model of fasttrips/Transfer.py: the Transfer constructor (load of the   *)
(* gtfs transfer list and of transfers_ft.txt, join, derived walk times,   *)
(* sanity check, floor), add_numeric_stop_id and                           *)
(* write_transfers_for_extension.                                          *)
(*                                                                         *)
(* A pandas DataFrame is a record [cols, rows]: cols is the set of column  *)
(* names, rows the sequence of rows, each row a function from cols to the  *)
(* cell values.  A missing numeric cell is NaN, a missing string cell is   *)
(* NaS.  Distances are held in hundredths of a mile, min_transfer_time in  *)
(* seconds, the *_min columns in minutes and the time column (a timedelta) *)
(* in seconds; the input values are chosen so that every division of the   *)
(* code is exact.                                                          *)
(***************************************************************************)
EXTENDS Integers, Sequences, FiniteSets, TLC

VARIABLES gtfs_transfers, ft_cols, ft_rows, transfers_df, pc, error,
          stops, output_file, written_df, writes, calls, call_log

vars == <<gtfs_transfers, ft_cols, ft_rows, transfers_df, pc, error,
          stops, output_file, written_df, writes, calls, call_log>>

----------------------------------------------------------------------------
(* Bounds of the model *)

MaxRows == 3
MaxCalls == 1
MaxExports == 2

(* Program constants *)

WALK_SPEED_MILES_PER_HOUR == 3
MaxWalkTimeMin == 780
MinutesPerHour == 60
SecondsPerMinute == 60

INPUT_TRANSFERS_FILE == "transfers_ft.txt"

TRANSFERS_COLUMN_FROM_STOP == "from_stop_id"
TRANSFERS_COLUMN_TO_STOP == "to_stop_id"
TRANSFERS_COLUMN_TRANSFER_TYPE == "transfer_type"
TRANSFERS_COLUMN_MIN_TRANSFER_TIME == "min_transfer_time"
TRANSFERS_COLUMN_DISTANCE == "dist"
TRANSFERS_COLUMN_FROM_ROUTE == "from_route_id"
TRANSFERS_COLUMN_TO_ROUTE == "to_route_id"
TRANSFERS_COLUMN_SCHEDULE_PRECEDENCE == "schedule_precedence"
TRANSFERS_COLUMN_FROM_STOP_NUM == "from_stop_id_num"
TRANSFERS_COLUMN_TO_STOP_NUM == "to_stop_id_num"
TRANSFERS_COLUMN_MIN_TRANSFER_TIME_MIN == "min_transfer_time_min"
TRANSFERS_COLUMN_TIME == "time"
TRANSFERS_COLUMN_TIME_MIN == "time_min"
TRANSFERS_COLUMN_PENALTY == "transfer_penalty"

(* Missing values: numeric cells hold naturals, so NaN is a value apart. *)
NaN == 0 - 1
NaS == "NaN"

StringCols == {TRANSFERS_COLUMN_FROM_STOP, TRANSFERS_COLUMN_TO_STOP,
               TRANSFERS_COLUMN_FROM_ROUTE, TRANSFERS_COLUMN_TO_ROUTE,
               TRANSFERS_COLUMN_SCHEDULE_PRECEDENCE}

NaOf(c) == IF c \in StringCols THEN NaS ELSE NaN

IsNa(c, v) == v = NaOf(c)

----------------------------------------------------------------------------
(* Inputs *)

(* stop ids: two transit stops and a park-and-ride lot *)
StopIds == {"A", "B", "P"}

StopNum(s) == CASE s = "A" -> 1 [] s = "B" -> 2 [] s = "P" -> 3

(* the stop registries add_numeric_stop_id may be given *)
Registries == {{"A", "B", "P"}, {"A", "B"}, {"B"}}

(* gtfs transfers: transfer_type is an int, min_transfer_time a string *)
BaseKeys == {<<"A", "B">>}
BaseTypes == {0, 2, 3}
BaseMinTimes == {"", "300", "60000"}

GtfsTransfer(k, t, m) ==
    [from_stop_id |-> k[1], to_stop_id |-> k[2],
     transfer_type |-> t, min_transfer_time |-> m]

GtfsTransfers == {GtfsTransfer(k, t, m) :
                    k \in BaseKeys, t \in BaseTypes, m \in BaseMinTimes}

(* transfers_ft.txt *)
RequiredFtCols == {TRANSFERS_COLUMN_FROM_STOP, TRANSFERS_COLUMN_TO_STOP,
                   TRANSFERS_COLUMN_DISTANCE, TRANSFERS_COLUMN_FROM_ROUTE,
                   TRANSFERS_COLUMN_TO_ROUTE,
                   TRANSFERS_COLUMN_SCHEDULE_PRECEDENCE}
OptionalFtCols == {TRANSFERS_COLUMN_TRANSFER_TYPE,
                   TRANSFERS_COLUMN_MIN_TRANSFER_TIME}

FtColumnSets == {RequiredFtCols \cup o : o \in SUBSET OptionalFtCols}
                \cup {RequiredFtCols \ {c} : c \in RequiredFtCols}

FtKeys == {<<"A", "B">>, <<"A", "P">>}
(* 0.10, 39.00 and 39.05 miles: 2, 780 and 781 minutes at 3 mph *)
DistVals == {10, 3900, 3905}
FtTypes == {0, 3}
FtMinTimes == {300}

FtCell(c, k, d, t, m) ==
    CASE c = TRANSFERS_COLUMN_FROM_STOP -> k[1]
      [] c = TRANSFERS_COLUMN_TO_STOP -> k[2]
      [] c = TRANSFERS_COLUMN_DISTANCE -> d
      [] c = TRANSFERS_COLUMN_TRANSFER_TYPE -> t
      [] c = TRANSFERS_COLUMN_MIN_TRANSFER_TIME -> m
      [] OTHER -> "x"

FtRows(cols) == {[c \in cols |-> FtCell(c, k, d, t, m)] :
                   k \in FtKeys, d \in DistVals, t \in FtTypes, m \in FtMinTimes}

SeqsUpTo(S, n) == UNION {[1..i -> S] : i \in 0..n}

----------------------------------------------------------------------------
(* DataFrame helpers *)

EmptyFrame(cols) == [cols |-> cols, rows |-> <<>>]

SetCell(r, c, v) == [x \in (DOMAIN r) \cup {c} |-> IF x = c THEN v ELSE r[x]]

NoError == [kind |-> "none", arg |-> ""]

(* pandas comparisons and arithmetic: anything compared with NaN is false *)
Gt(a, b) == a # NaN /\ b # NaN /\ a > b

Lt(a, b) == a # NaN /\ b # NaN /\ a < b

----------------------------------------------------------------------------
(* Transfer.__init__, lines 99-127: the gtfs transfers as a DataFrame *)

(* replace(to_replace={min_transfer_time: {"": "0"}}) *)
ReplaceEmpty(s) == IF s = "" THEN "0" ELSE s

(* astype(float) on the strings of the column *)
AsFloat(s) == CASE s = "0" -> 0 [] s = "300" -> 300 [] s = "60000" -> 60000

(* .loc[transfer_type != 2, min_transfer_time] = 0 *)
ZeroUnlessMinTimeType(r) ==
    IF r[TRANSFERS_COLUMN_TRANSFER_TYPE] # 2
    THEN [r EXCEPT ![TRANSFERS_COLUMN_MIN_TRANSFER_TIME] = 0]
    ELSE r

BaseCols == {TRANSFERS_COLUMN_FROM_STOP, TRANSFERS_COLUMN_TO_STOP,
             TRANSFERS_COLUMN_TRANSFER_TYPE, TRANSFERS_COLUMN_MIN_TRANSFER_TIME}

PlaceholderCols == {TRANSFERS_COLUMN_FROM_STOP, TRANSFERS_COLUMN_FROM_STOP_NUM,
                    TRANSFERS_COLUMN_TO_STOP, TRANSFERS_COLUMN_TO_STOP_NUM,
                    TRANSFERS_COLUMN_TIME, TRANSFERS_COLUMN_TIME_MIN}

BaseRow(t) ==
    ZeroUnlessMinTimeType(
        [c \in BaseCols |->
            CASE c = TRANSFERS_COLUMN_FROM_STOP -> t.from_stop_id
              [] c = TRANSFERS_COLUMN_TO_STOP -> t.to_stop_id
              [] c = TRANSFERS_COLUMN_TRANSFER_TYPE -> t.transfer_type
              [] c = TRANSFERS_COLUMN_MIN_TRANSFER_TIME ->
                     AsFloat(ReplaceEmpty(t.min_transfer_time))])

BaseFrame(transfer_list) ==
    IF Len(transfer_list) > 0
    THEN [cols |-> BaseCols,
          rows |-> [i \in 1..Len(transfer_list) |-> BaseRow(transfer_list[i])]]
    ELSE EmptyFrame(PlaceholderCols)

BuildBase ==
    /\ pc = "init"
    /\ transfers_df' = BaseFrame(gtfs_transfers)
    /\ pc' = "read_ft"
    /\ UNCHANGED <<gtfs_transfers, ft_cols, ft_rows, error, stops, output_file,
                   written_df, writes, calls, call_log>>

----------------------------------------------------------------------------
(* lines 129-139: read transfers_ft.txt, assert the required columns *)

MissingRequired(cols) == RequiredFtCols \ cols

(* a bare assert: an AssertionError that carries no message *)
AssertionFailure == [kind |-> "AssertionError", arg |-> ""]

ReadSupplemental ==
    /\ pc = "read_ft"
    /\ IF MissingRequired(ft_cols) # {}
       THEN /\ error' = AssertionFailure
            /\ pc' = "error"
       ELSE /\ error' = error
            /\ pc' = "join"
    /\ UNCHANGED <<gtfs_transfers, ft_cols, ft_rows, transfers_df, stops,
                   output_file, written_df, writes, calls, call_log>>

----------------------------------------------------------------------------
(* lines 141-156: right merge on (from_stop_id, to_stop_id), fillna, penalty *)

JoinKeys == {TRANSFERS_COLUMN_FROM_STOP, TRANSFERS_COLUMN_TO_STOP}

(* columns other than the keys that both frames have take the suffixes _x, _y *)
Overlap(lcols, rcols) == (lcols \cap rcols) \ JoinKeys

LeftName(c, lcols, rcols) == IF c \in Overlap(lcols, rcols) THEN c \o "_x" ELSE c

RightName(c, lcols, rcols) == IF c \in Overlap(lcols, rcols) THEN c \o "_y" ELSE c

MergedCols(lcols, rcols) ==
    JoinKeys \cup {LeftName(c, lcols, rcols) : c \in lcols \ JoinKeys}
             \cup {RightName(c, lcols, rcols) : c \in rcols \ JoinKeys}

KeysMatch(l, r) == \A k \in JoinKeys : l[k] = r[k]

(* one merged row: r is the right row, l the matching left row; with         *)
(* matched = FALSE the left columns are missing                             *)
MergedRow(l, r, matched, lcols, rcols) ==
    [c \in MergedCols(lcols, rcols) |->
        IF c \in JoinKeys THEN r[c]
        ELSE IF \E lc \in lcols \ JoinKeys : LeftName(lc, lcols, rcols) = c
        THEN LET lc == CHOOSE x \in lcols \ JoinKeys : LeftName(x, lcols, rcols) = c
             IN IF matched THEN l[lc] ELSE NaOf(lc)
        ELSE LET rc == CHOOSE x \in rcols \ JoinKeys : RightName(x, lcols, rcols) = c
             IN r[rc]]

RowsOfRightInner(left, r, rcols) ==
    LET ms == SelectSeq(left.rows, LAMBDA l : KeysMatch(l, r))
    IN [i \in 1..Len(ms) |-> MergedRow(ms[i], r, TRUE, left.cols, rcols)]

(* the merged rows of one right row: one per matching left row, or one      *)
(* with the left columns missing when no left row matches                   *)
RowsOfRight(left, r, rcols) ==
    LET ms == SelectSeq(left.rows, LAMBDA l : KeysMatch(l, r))
    IN IF Len(ms) = 0
       THEN <<MergedRow(r, r, FALSE, left.cols, rcols)>>
       ELSE [i \in 1..Len(ms) |-> MergedRow(ms[i], r, TRUE, left.cols, rcols)]

RECURSIVE RightMergeRows(_, _, _, _)
RightMergeRows(left, rrows, rcols, i) ==
    IF i > Len(rrows) THEN <<>>
    ELSE RowsOfRight(left, rrows[i], rcols) \o RightMergeRows(left, rrows, rcols, i + 1)

(* pandas.merge(left, right, how='right', on=[from_stop_id, to_stop_id]) *)
RightMerge(left, right) ==
    [cols |-> MergedCols(left.cols, right.cols),
     rows |-> RightMergeRows(left, right.rows, right.cols, 1)]

(* fillna(value={min_transfer_time: 0, transfer_type: 0}): a key that is no  *)
(* column of the frame is skipped                                           *)
FillNa(df) ==
    [df EXCEPT !.rows = [i \in 1..Len(df.rows) |->
        [c \in df.cols |->
            IF /\ c \in {TRANSFERS_COLUMN_MIN_TRANSFER_TIME,
                         TRANSFERS_COLUMN_TRANSFER_TYPE}
               /\ IsNa(c, df.rows[i][c])
            THEN 0 ELSE df.rows[i][c]]]]

(* df[col] = v for a scalar v *)
AssignColumn(df, col, v) ==
    [cols |-> df.cols \cup {col},
     rows |-> [i \in 1..Len(df.rows) |-> SetCell(df.rows[i], col, v)]]

JoinedFrame(base, ftc, ftr) ==
    AssignColumn(IF Len(ftr) > 0
                 THEN FillNa(RightMerge(base, [cols |-> ftc, rows |-> ftr]))
                 ELSE base,
                 TRANSFERS_COLUMN_PENALTY, 1)

Join ==
    /\ pc = "join"
    /\ transfers_df' = JoinedFrame(transfers_df, ft_cols, ft_rows)
    /\ pc' = "derive"
    /\ UNCHANGED <<gtfs_transfers, ft_cols, ft_rows, error, stops, output_file,
                   written_df, writes, calls, call_log>>

----------------------------------------------------------------------------
(* lines 162-168: min_transfer_time_min and the distance-based time_min *)

KeyError(col) == [kind |-> "KeyError", arg |-> col]

(* min_transfer_time / 60.0 *)
MinTransferTimeMin(sec) == IF sec = NaN THEN NaN ELSE sec \div SecondsPerMinute

(* dist * 60.0 / WALK_SPEED_MILES_PER_HOUR, dist in hundredths of a mile *)
WalkTimeMin(dist) ==
    IF dist = NaN THEN NaN
    ELSE (dist * MinutesPerHour) \div (WALK_SPEED_MILES_PER_HOUR * 100)

DerivedRow(r) ==
    SetCell(SetCell(r, TRANSFERS_COLUMN_MIN_TRANSFER_TIME_MIN,
                    MinTransferTimeMin(r[TRANSFERS_COLUMN_MIN_TRANSFER_TIME])),
            TRANSFERS_COLUMN_TIME_MIN, WalkTimeMin(r[TRANSFERS_COLUMN_DISTANCE]))

DerivedFrame(df) ==
    [cols |-> df.cols \cup {TRANSFERS_COLUMN_MIN_TRANSFER_TIME_MIN,
                            TRANSFERS_COLUMN_TIME_MIN},
     rows |-> [i \in 1..Len(df.rows) |-> DerivedRow(df.rows[i])]]

Derive ==
    /\ pc = "derive"
    /\ IF Len(transfers_df.rows) = 0
       THEN /\ pc' = "loaded"
            /\ UNCHANGED <<transfers_df, error>>
       ELSE IF TRANSFERS_COLUMN_MIN_TRANSFER_TIME \notin transfers_df.cols
       THEN /\ error' = KeyError(TRANSFERS_COLUMN_MIN_TRANSFER_TIME)
            /\ pc' = "error"
            /\ UNCHANGED transfers_df
       ELSE IF TRANSFERS_COLUMN_DISTANCE \notin transfers_df.cols
       THEN /\ error' = KeyError(TRANSFERS_COLUMN_DISTANCE)
            /\ pc' = "error"
            /\ UNCHANGED transfers_df
       ELSE /\ transfers_df' = DerivedFrame(transfers_df)
            /\ pc' = "sanity"
            /\ UNCHANGED error
    /\ UNCHANGED <<gtfs_transfers, ft_cols, ft_rows, stops, output_file,
                   written_df, writes, calls, call_log>>

----------------------------------------------------------------------------
(* lines 170-178: a walk of more than 13 hours fails the load *)

TooLong(r) == Gt(r[TRANSFERS_COLUMN_TIME_MIN], MaxWalkTimeMin)

too_long_transfers(df) == SelectSeq(df.rows, TooLong)

NetworkInputError(file) == [kind |-> "NetworkInputError", arg |-> file]

SanityCheck ==
    /\ pc = "sanity"
    /\ IF Len(too_long_transfers(transfers_df)) > 0
       THEN /\ error' = NetworkInputError(INPUT_TRANSFERS_FILE)
            /\ pc' = "error"
       ELSE /\ error' = error
            /\ pc' = "floor"
    /\ UNCHANGED <<gtfs_transfers, ft_cols, ft_rows, transfers_df, stops,
                   output_file, written_df, writes, calls, call_log>>

----------------------------------------------------------------------------
(* lines 180-186: time_min is at least min_transfer_time_min; time column *)

FloorTimeUnfloored(time_min, min_transfer_time_min) == time_min

FloorTime(time_min, min_transfer_time_min) ==
    IF Lt(time_min, min_transfer_time_min) THEN min_transfer_time_min ELSE time_min

(* datetime.timedelta(minutes=x), held in seconds *)
TimeDelta(minutes) == IF minutes = NaN THEN NaN ELSE minutes * SecondsPerMinute

FlooredRow(r) ==
    LET t == FloorTime(r[TRANSFERS_COLUMN_TIME_MIN],
                       r[TRANSFERS_COLUMN_MIN_TRANSFER_TIME_MIN])
    IN SetCell(SetCell(r, TRANSFERS_COLUMN_TIME_MIN, t),
               TRANSFERS_COLUMN_TIME, TimeDelta(t))

FlooredFrame(df) ==
    [cols |-> df.cols \cup {TRANSFERS_COLUMN_TIME},
     rows |-> [i \in 1..Len(df.rows) |-> FlooredRow(df.rows[i])]]

Floor ==
    /\ pc = "floor"
    /\ transfers_df' = FlooredFrame(transfers_df)
    /\ pc' = "loaded"
    /\ UNCHANGED <<gtfs_transfers, ft_cols, ft_rows, error, stops, output_file,
                   written_df, writes, calls, call_log>>

----------------------------------------------------------------------------
(* write_transfers_for_extension, lines 231-265 *)

DroppedCols == {TRANSFERS_COLUMN_TIME, TRANSFERS_COLUMN_FROM_STOP,
                TRANSFERS_COLUMN_TO_STOP, TRANSFERS_COLUMN_MIN_TRANSFER_TIME,
                TRANSFERS_COLUMN_SCHEDULE_PRECEDENCE,
                TRANSFERS_COLUMN_FROM_ROUTE, TRANSFERS_COLUMN_TO_ROUTE}

IndexCols == {TRANSFERS_COLUMN_FROM_STOP_NUM, TRANSFERS_COLUMN_TO_STOP_NUM}

(* the columns the export reads, in the order it reads them: the first one  *)
(* the frame lacks raises the KeyError                                      *)
ExportNeeds == <<TRANSFERS_COLUMN_TRANSFER_TYPE,
                 TRANSFERS_COLUMN_TIME, TRANSFERS_COLUMN_FROM_STOP,
                 TRANSFERS_COLUMN_TO_STOP, TRANSFERS_COLUMN_MIN_TRANSFER_TIME,
                 TRANSFERS_COLUMN_SCHEDULE_PRECEDENCE,
                 TRANSFERS_COLUMN_FROM_ROUTE, TRANSFERS_COLUMN_TO_ROUTE,
                 TRANSFERS_COLUMN_TIME_MIN,
                 TRANSFERS_COLUMN_FROM_STOP_NUM, TRANSFERS_COLUMN_TO_STOP_NUM>>

MissingForExport(df) ==
    SelectSeq(ExportNeeds, LAMBDA c : c \notin df.cols)

(* the order of the attribute columns in the stacked frame *)
ColumnOrder == <<"transfer_type_x", "transfer_type_y", "min_transfer_time_x",
                 "min_transfer_time_y",
                 TRANSFERS_COLUMN_TRANSFER_TYPE, TRANSFERS_COLUMN_DISTANCE,
                 TRANSFERS_COLUMN_PENALTY,
                 TRANSFERS_COLUMN_MIN_TRANSFER_TIME_MIN,
                 TRANSFERS_COLUMN_TIME_MIN, "walk_time_min">>

KeptLabelsUnfiltered(df) == [i \in 1..Len(df.rows) |-> i]

(* .loc[transfer_type != 3]: the row labels that stay *)
KeptLabels(df) ==
    SelectSeq([i \in 1..Len(df.rows) |-> i],
              LAMBDA i : df.rows[i][TRANSFERS_COLUMN_TRANSFER_TYPE] # 3)

(* the row as exported: columns dropped, walk_time_min added *)
ExportRow(r) ==
    [c \in ((DOMAIN r) \ DroppedCols) \cup {"walk_time_min"} |->
        IF c = "walk_time_min" THEN r[TRANSFERS_COLUMN_TIME_MIN] ELSE r[c]]

(* set_index + stack + reset_index of one row: one record per attribute     *)
(* whose value is not missing; label is the row's label in transfers_df     *)
StackRow(label, r) ==
    LET attrs == SelectSeq(ColumnOrder,
                           LAMBDA c : /\ c \in DOMAIN r
                                      /\ c \notin IndexCols
                                      /\ ~IsNa(c, r[c]))
    IN [j \in 1..Len(attrs) |->
          [label |-> label,
           from_stop_id_num |-> r[TRANSFERS_COLUMN_FROM_STOP_NUM],
           to_stop_id_num |-> r[TRANSFERS_COLUMN_TO_STOP_NUM],
           attr_name |-> attrs[j],
           attr_value |-> r[attrs[j]]]]

RECURSIVE StackRows(_, _, _)
StackRows(df, labels, i) ==
    IF i > Len(labels) THEN <<>>
    ELSE StackRow(labels[i], ExportRow(df.rows[labels[i]]))
         \o StackRows(df, labels, i + 1)

ExportLines(df) == StackRows(df, KeptLabels(df), 1)

AfterExportInPlace(df) ==
    [df EXCEPT !.rows = SelectSeq(df.rows,
                          LAMBDA r : r[TRANSFERS_COLUMN_TRANSFER_TYPE] # 3)]

(* the relation write_transfers_for_extension leaves in self.transfers_df *)
AfterExport(df) == df

(* the body of write_transfers_for_extension; next is where control goes    *)
(* when it returns                                                          *)
WriteBody(next) ==
    IF Len(MissingForExport(transfers_df)) > 0
    THEN /\ error' = KeyError(MissingForExport(transfers_df)[1])
         /\ pc' = "export_error"
         /\ UNCHANGED <<transfers_df, output_file, written_df, writes>>
    ELSE /\ output_file' = ExportLines(transfers_df)
         /\ transfers_df' = AfterExport(transfers_df)
         /\ written_df' = transfers_df
         /\ writes' = writes + 1
         /\ pc' = next
         /\ UNCHANGED error

write_transfers_for_extension ==
    /\ pc = "loaded"
    /\ writes < MaxExports
    /\ WriteBody("loaded")
    /\ UNCHANGED <<gtfs_transfers, ft_cols, ft_rows, stops, calls, call_log>>

----------------------------------------------------------------------------
(* Stop.add_numeric_stop_id: the numeric id of every stop id the registry   *)
(* knows; an unknown id is warned about and left without a numeric id       *)

Resolve(registry, id) == IF id \in registry THEN StopNum(id) ELSE NaN

StopsAddNumericStopId(registry, df, id_colname, numeric_newcolname) ==
    [cols |-> df.cols \cup {numeric_newcolname},
     rows |-> [i \in 1..Len(df.rows) |->
                 SetCell(df.rows[i], numeric_newcolname,
                         Resolve(registry, df.rows[i][id_colname]))]]

(* Transfer.add_numeric_stop_id, lines 194-212 *)
AddNumericStopId ==
    /\ pc = "loaded"
    /\ calls < MaxCalls
    /\ writes < MaxExports
    /\ calls' = calls + 1
    /\ call_log' = <<>>
    /\ \E registry \in Registries : stops' = registry
    /\ pc' = IF Len(transfers_df.rows) > 0 THEN "resolve_from" ELSE "loaded"
    /\ UNCHANGED <<gtfs_transfers, ft_cols, ft_rows, transfers_df, error,
                   output_file, written_df, writes>>

ResolveFromThenWrite ==
    /\ pc = "resolve_from"
    /\ transfers_df' = StopsAddNumericStopId(stops, transfers_df,
                           TRANSFERS_COLUMN_FROM_STOP,
                           TRANSFERS_COLUMN_FROM_STOP_NUM)
    /\ call_log' = Append(call_log, "from")
    /\ pc' = "write"
    /\ UNCHANGED <<gtfs_transfers, ft_cols, ft_rows, error, stops, output_file,
                   written_df, writes, calls>>

ResolveFrom ==
    /\ pc = "resolve_from"
    /\ transfers_df' = StopsAddNumericStopId(stops, transfers_df,
                           TRANSFERS_COLUMN_FROM_STOP,
                           TRANSFERS_COLUMN_FROM_STOP_NUM)
    /\ call_log' = Append(call_log, "from")
    /\ pc' = "resolve_to"
    /\ UNCHANGED <<gtfs_transfers, ft_cols, ft_rows, error, stops, output_file,
                   written_df, writes, calls>>

ResolveTo ==
    /\ pc = "resolve_to"
    /\ transfers_df' = StopsAddNumericStopId(stops, transfers_df,
                           TRANSFERS_COLUMN_TO_STOP,
                           TRANSFERS_COLUMN_TO_STOP_NUM)
    /\ call_log' = Append(call_log, "to")
    /\ pc' = "write"
    /\ UNCHANGED <<gtfs_transfers, ft_cols, ft_rows, error, stops, output_file,
                   written_df, writes, calls>>

WriteAfterResolve ==
    /\ pc = "write"
    /\ WriteBody("loaded")
    /\ call_log' = IF pc' = "export_error" THEN call_log ELSE Append(call_log, "write")
    /\ UNCHANGED <<gtfs_transfers, ft_cols, ft_rows, stops, calls>>

----------------------------------------------------------------------------
Init ==
    /\ gtfs_transfers \in SeqsUpTo(GtfsTransfers, MaxRows)
    /\ ft_cols \in FtColumnSets
    /\ ft_rows \in SeqsUpTo(FtRows(ft_cols), MaxRows - Len(gtfs_transfers))
    /\ transfers_df = EmptyFrame({})
    /\ pc = "init"
    /\ error = NoError
    /\ stops = {}
    /\ output_file = <<>>
    /\ written_df = EmptyFrame({})
    /\ writes = 0
    /\ calls = 0
    /\ call_log = <<>>

Next ==
    \/ BuildBase
    \/ ReadSupplemental
    \/ Join
    \/ Derive
    \/ SanityCheck
    \/ Floor
    \/ AddNumericStopId
    \/ ResolveFrom
    \/ ResolveTo
    \/ WriteAfterResolve
    \/ write_transfers_for_extension

Spec == Init /\ [][Next]_vars

----------------------------------------------------------------------------
(* Vocabulary of the properties *)

Rows == transfers_df.rows

RowIds == 1..Len(transfers_df.rows)

HasCol(c) == c \in transfers_df.cols

(* the constructor has returned without raising *)
LoadCompleted ==
    pc \in {"loaded", "resolve_from", "resolve_to", "write", "export_error"}

(* the relation is the one the join produced (lines 144-156 have run) *)
PostJoin == pc = "derive"

----------------------------------------------------------------------------
(* C1: after a load that completes without error, every row has             *)
(* time_min >= min_transfer_time_min.                                       *)
C1_WalkTimeAtLeastMinTransferTime ==
    LoadCompleted =>
        \A i \in RowIds :
            /\ Rows[i][TRANSFERS_COLUMN_TIME_MIN] # NaN
            /\ Rows[i][TRANSFERS_COLUMN_MIN_TRANSFER_TIME_MIN] # NaN
            /\ Rows[i][TRANSFERS_COLUMN_TIME_MIN]
                  >= Rows[i][TRANSFERS_COLUMN_MIN_TRANSFER_TIME_MIN]

(* a loaded row that the floor raised above its distance-based walk time *)
C1_Witness ==
    /\ LoadCompleted
    /\ \E i \in RowIds :
          /\ WalkTimeMin(Rows[i][TRANSFERS_COLUMN_DISTANCE])
                < Rows[i][TRANSFERS_COLUMN_MIN_TRANSFER_TIME_MIN]
          /\ Rows[i][TRANSFERS_COLUMN_TIME_MIN]
                = Rows[i][TRANSFERS_COLUMN_MIN_TRANSFER_TIME_MIN]

(* C2: after a load that completes without error, every row whose           *)
(* transfer_type is not 2 has min_transfer_time 0, also when the base feed  *)
(* is empty and transfers_ft.txt supplies transfer_type and                 *)
(* min_transfer_time itself.                                                *)
C2_MinTimeZeroUnlessType2 ==
    (LoadCompleted /\ HasCol(TRANSFERS_COLUMN_TRANSFER_TYPE)
                   /\ HasCol(TRANSFERS_COLUMN_MIN_TRANSFER_TIME)) =>
        \A i \in RowIds :
            Rows[i][TRANSFERS_COLUMN_TRANSFER_TYPE] # 2
                => Rows[i][TRANSFERS_COLUMN_MIN_TRANSFER_TIME] = 0

(* C3: after a load that completes without error, every row has final       *)
(* time_min <= 780, the floor included.                                     *)
C3_FinalWalkTimeWithinBound ==
    LoadCompleted =>
        \A i \in RowIds : ~Gt(Rows[i][TRANSFERS_COLUMN_TIME_MIN], MaxWalkTimeMin)

(* C4: once the joined relation has a row whose distance-based walk time    *)
(* exceeds 780, the load ends in NetworkInputError(transfers_ft.txt), and   *)
(* no export is written.                                                    *)
JoinedRowTooLong ==
    /\ HasCol(TRANSFERS_COLUMN_DISTANCE)
    /\ \E i \in RowIds :
          Gt(WalkTimeMin(Rows[i][TRANSFERS_COLUMN_DISTANCE]), MaxWalkTimeMin)

(* C4: a joined row too long by its distance ends the load in              *)
(* NetworkInputError(transfers_ft.txt) with nothing exported.               *)
C4_TooLongEndsInNetworkInputError ==
    (JoinedRowTooLong /\ pc \notin {"derive", "sanity"}) =>
        /\ pc = "error"
        /\ error = NetworkInputError(INPUT_TRANSFERS_FILE)
        /\ writes = 0

----------------------------------------------------------------------------
(* C5: join completeness *)

BaseDf == BaseFrame(gtfs_transfers)

(* what a joined row holds in the columns of transfers_ft.txt *)
FtPart(r) == [c \in ft_cols |-> r[RightName(c, BaseDf.cols, ft_cols)]]

(* how often the supplemental row v is in the joined relation, in the file, *)
(* and how many base-feed rows declare its pair                             *)
TimesJoined(v) == Cardinality({i \in RowIds : FtPart(Rows[i]) = v})

TimesInFile(v) == Cardinality({i \in DOMAIN ft_rows : ft_rows[i] = v})

BaseMatches(v) ==
    Cardinality({i \in DOMAIN BaseDf.rows : KeysMatch(BaseDf.rows[i], v)})

FtRowValues == {ft_rows[i] : i \in DOMAIN ft_rows}

OnlySupplementalPairs ==
    \A i \in RowIds : \E v \in FtRowValues : KeysMatch(Rows[i], v)

----------------------------------------------------------------------------
(* C6: a transfers_ft.txt that lacks a required column fails the load with  *)
(* an input-format error, the kind of the sanity check's error, that names  *)
(* the missing column.                                                      *)
C6_MissingColumnIsNetworkInputError ==
    (RequiredFtCols \ ft_cols # {} /\ pc \notin {"init", "read_ft"}) =>
        /\ pc = "error"
        /\ error.kind = "NetworkInputError"
        /\ error.arg \in RequiredFtCols \ ft_cols

----------------------------------------------------------------------------
(* C7: no row with transfer_type 3 contributes a record to the exported     *)
(* file; every row with another transfer_type and both numeric ids          *)
(* resolved contributes a record for each attribute it has.                 *)

ExportedAttrs == {TRANSFERS_COLUMN_TRANSFER_TYPE, TRANSFERS_COLUMN_DISTANCE,
                  TRANSFERS_COLUMN_PENALTY,
                  TRANSFERS_COLUMN_MIN_TRANSFER_TIME_MIN,
                  TRANSFERS_COLUMN_TIME_MIN}

Records == {output_file[j] : j \in DOMAIN output_file}

WrittenIds == 1..Len(written_df.rows)

BothResolved(r) ==
    /\ r[TRANSFERS_COLUMN_FROM_STOP_NUM] # NaN
    /\ r[TRANSFERS_COLUMN_TO_STOP_NUM] # NaN

Contributes(i, name, value) ==
    \E rec \in Records :
        /\ rec.label = i
        /\ rec.from_stop_id_num = written_df.rows[i][TRANSFERS_COLUMN_FROM_STOP_NUM]
        /\ rec.to_stop_id_num = written_df.rows[i][TRANSFERS_COLUMN_TO_STOP_NUM]
        /\ rec.attr_name = name
        /\ rec.attr_value = value

(* C7: transfer_type 3 rows are not in the export, the resolved rows of     *)
(* every other type are, with each of their attributes.                     *)
C7_Type3NeverExported ==
    writes > 0 =>
        \A i \in WrittenIds :
            LET r == written_df.rows[i]
            IN IF r[TRANSFERS_COLUMN_TRANSFER_TYPE] = 3
               THEN \A rec \in Records : rec.label # i
               ELSE BothResolved(r) =>
                      /\ \A a \in ExportedAttrs : Contributes(i, a, r[a])
                      /\ Contributes(i, "walk_time_min", r[TRANSFERS_COLUMN_TIME_MIN])

(* an export of a relation with a type 3 row and a resolved row of another *)
(* type                                                                     *)
C7_Witness ==
    /\ writes > 0
    /\ \E i \in WrittenIds : written_df.rows[i][TRANSFERS_COLUMN_TRANSFER_TYPE] = 3
    /\ \E i \in WrittenIds :
          /\ written_df.rows[i][TRANSFERS_COLUMN_TRANSFER_TYPE] # 3
          /\ BothResolved(written_df.rows[i])

----------------------------------------------------------------------------
(* C8: a link whose from-stop or to-stop id the registry does not know      *)
(* stays in the relation without a numeric id for that side, nothing        *)
(* aborts, and it contributes no record to the exported file.               *)
C8_UnresolvedLinkNotExported ==
    (pc = "loaded" /\ call_log = <<"from", "to", "write">>
                   /\ written_df = transfers_df) =>
        \A i \in RowIds :
            /\ Rows[i][TRANSFERS_COLUMN_FROM_STOP] \notin stops
                  => Rows[i][TRANSFERS_COLUMN_FROM_STOP_NUM] = NaN
            /\ Rows[i][TRANSFERS_COLUMN_TO_STOP] \notin stops
                  => Rows[i][TRANSFERS_COLUMN_TO_STOP_NUM] = NaN
            /\ ~BothResolved(Rows[i]) => \A rec \in Records : rec.label # i

----------------------------------------------------------------------------
(* C9: in add_numeric_stop_id the export is written only after from_stop_id *)
(* and then to_stop_id have been resolved, once, as the last step; on an    *)
(* empty relation nothing is resolved and nothing is written.               *)

ResolvedColumn(id_colname, numeric_colname) ==
    /\ HasCol(numeric_colname)
    /\ \A i \in RowIds :
          Rows[i][numeric_colname] = Resolve(stops, Rows[i][id_colname])

C9_CallOrder ==
    /\ pc = "resolve_from" => call_log = <<>>
    /\ pc = "resolve_to" =>
          /\ call_log = <<"from">>
          /\ ResolvedColumn(TRANSFERS_COLUMN_FROM_STOP, TRANSFERS_COLUMN_FROM_STOP_NUM)
    /\ pc = "write" =>
          /\ call_log = <<"from", "to">>
          /\ ResolvedColumn(TRANSFERS_COLUMN_FROM_STOP, TRANSFERS_COLUMN_FROM_STOP_NUM)
          /\ ResolvedColumn(TRANSFERS_COLUMN_TO_STOP, TRANSFERS_COLUMN_TO_STOP_NUM)
    /\ (pc = "loaded" /\ calls > 0) =>
          call_log = IF Len(Rows) = 0 THEN <<>> ELSE <<"from", "to", "write">>

C9_CallSteps ==
    /\ (pc \in {"resolve_from", "resolve_to"}) =>
          UNCHANGED <<output_file, writes>>
    /\ (pc = "write" /\ pc' = "loaded") => writes' = writes + 1
    /\ (calls' # calls /\ Len(Rows) = 0) =>
          /\ pc' = "loaded"
          /\ UNCHANGED <<transfers_df, output_file, writes>>

(* C9: from, then to, then one export as the last step; nothing on an       *)
(* empty relation.                                                          *)
C9_ExportLastAfterBothResolutions == []C9_CallOrder /\ [][C9_CallSteps]_vars

(* a call on a non-empty relation has returned *)
C9_Witness ==
    /\ pc = "loaded"
    /\ Len(Rows) > 0
    /\ call_log = <<"from", "to", "write">>

----------------------------------------------------------------------------
(* C10: write_transfers_for_extension leaves self.transfers_df as it was,   *)
(* the transfer_type 3 rows included, and a second export of the same       *)
(* relation writes the same file.                                           *)
C10_ExportStep ==
    writes' # writes =>
        /\ transfers_df' = transfers_df
        /\ (writes > 0 /\ written_df = transfers_df) => output_file' = output_file

====
